---- MODULE Spec2Model ----
(***************************************************************************)
(* Model of hello/rust/build.rs: the build script that stages the .proto   *)
(* files of ../src/main/protobuf into proto/ and then runs the tonic/prost *)
(* code generator on proto/hello.proto.                                    *)
(*                                                                         *)
(* Paths and file names are sequences of one-character strings, so that    *)
(* Path::extension, Path::file_name and Path::join are computed the way    *)
(* the standard library computes them.  File contents are sequences of     *)
(* bytes.  The file system is the pair (src, dst): the source directory    *)
(* with its entries in read_dir order, and the destination path.  A file   *)
(* has a content and a mode (writable or read-only); fs::copy gives the    *)
(* destination the source's mode, and only a privileged user can overwrite *)
(* a read-only destination file.                                           *)
(***************************************************************************)
EXTENDS Integers, Sequences, FiniteSets, TLC

\* ---------------------------------------------------------------- bounds
MaxEntries == 3   \* most entries in the source directory
MaxContent == 2   \* distinct file contents
MaxPrior   == 1   \* most entries already in the destination directory
MaxRuns    == 2   \* how often the build script is run

\* ------------------------------------------------------ paths and names
SourceDir == <<".", ".", "/", "s", "r", "c", "/", "m", "a", "i", "n", "/",
               "p", "r", "o", "t", "o", "b", "u", "f">>
DestDir == <<"p", "r", "o", "t", "o">>
ProtoExt == <<"p", "r", "o", "t", "o">>
EntryPoint == <<"p", "r", "o", "t", "o", "/",
                "h", "e", "l", "l", "o", ".", "p", "r", "o", "t", "o">>
IncludePath == <<"p", "r", "o", "t", "o">>
RerunIfChanged == <<"c", "a", "r", "g", "o", ":", "r", "e", "r", "u", "n", "-",
                    "i", "f", "-", "c", "h", "a", "n", "g", "e", "d", "=">>

\* the file names the source directory draws its entries from
HelloProto == <<"h", "e", "l", "l", "o", ".", "p", "r", "o", "t", "o">>
NotesTxt   == <<"n", "o", "t", "e", "s", ".", "t", "x", "t">>
DotProto   == <<".", "p", "r", "o", "t", "o">>
ABProto    == <<"a", ".", "b", ".", "p", "r", "o", "t", "o">>
Names == {HelloProto, ABProto, NotesTxt, DotProto}
PriorNames == {HelloProto, NotesTxt}

\* the names whose files are given every content and the names whose files
\* are given both modes; the other files have the first content and are
\* writable
ContentNames == {HelloProto}
ModeNames == {HelloProto, ABProto}

Contents == {<<b>> : b \in 1..MaxContent}

\* the content of a file left in the destination by an earlier build
OldContent == <<0>>

\* Option<T>
None == [some |-> FALSE, val |-> <<>>]
Some(x) == [some |-> TRUE, val |-> x]

\* index of the last occurrence of character c in s at or before position i,
\* 0 when there is none
RECURSIVE LastIndexFrom(_, _, _)
LastIndexFrom(s, c, i) ==
    IF i = 0 THEN 0
    ELSE IF s[i] = c THEN i ELSE LastIndexFrom(s, c, i - 1)

LastIndexOf(s, c) == LastIndexFrom(s, c, Len(s))

\* Path::join for a relative second component
Join(dir, name) == dir \o <<"/">> \o name

\* the path without its trailing separators
RECURSIVE TrimSeparators(_)
TrimSeparators(path) ==
    IF Len(path) > 1 /\ path[Len(path)] = "/"
    THEN TrimSeparators(SubSeq(path, 1, Len(path) - 1))
    ELSE path

\* Path::file_name: the final component, None when it is ".." or the root
FileName(path) ==
    LET p == TrimSeparators(path)
        s == LastIndexOf(p, "/")
        last == SubSeq(p, s + 1, Len(p))
    IN IF last = <<".", ".">> \/ last = <<>> THEN None ELSE Some(last)

\* std::path rsplit_file_at_dot: (before, after) around the last dot
RsplitFileAtDot(file) ==
    IF file = <<".", ".">>
    THEN [before |-> Some(file), after |-> None]
    ELSE LET d == LastIndexOf(file, ".")
         IN IF d = 0
            THEN [before |-> None, after |-> Some(file)]
            ELSE IF d = 1
                 THEN [before |-> Some(file), after |-> None]
                 ELSE [before |-> Some(SubSeq(file, 1, d - 1)),
                       after |-> Some(SubSeq(file, d + 1, Len(file)))]

\* Path::extension
Extension(path) ==
    LET f == FileName(path)
    IN IF ~f.some THEN None
       ELSE LET r == RsplitFileAtDot(f.val)
            IN IF r.before.some THEN r.after ELSE None

\* a faulty variant of IsProto: a suffix test on the name instead of the extension
IsProto_suffix(path) ==
    /\ Len(path) >= Len(ProtoExt)
    /\ SubSeq(path, Len(path) - Len(ProtoExt) + 1, Len(path)) = ProtoExt

\* path.extension().map_or(false, |ext| ext == "proto")
IsProto(path) ==
    LET x == Extension(path)
    IN IF x.some THEN x.val = ProtoExt ELSE FALSE

\* ---------------------------------------------------------- file system
\* a regular file with its content and whether its mode denies writing
\* (0444 rather than 0644); a directory
FileNode(c, ro) == [kind |-> "file", content |-> c, ro |-> ro]
DirNode == [kind |-> "dir", content |-> <<>>, ro |-> FALSE]
NodesFor(nm) ==
    {FileNode(c, ro) :
        c \in (IF nm \in ContentNames THEN Contents ELSE {<<1>>}),
        ro \in (IF nm \in ModeNames THEN BOOLEAN ELSE {FALSE})}
    \cup {DirNode}
PriorNodesFor(nm) ==
    {FileNode(OldContent, ro) : ro \in (IF nm \in ModeNames THEN BOOLEAN ELSE {FALSE})}
    \cup {DirNode}

EmptyDir == [n \in {} |-> DirNode]
AbsentPath == [kind |-> "absent", entries |-> EmptyDir]
FilePath == [kind |-> "file", entries |-> EmptyDir]
DirPath(es) == [kind |-> "dir", entries |-> es]

DistinctNames(l) == \A i, j \in 1..Len(l) : i # j => l[i].name # l[j].name

\* sequences of at most n entries
RECURSIVE Listings(_)
Listings(n) ==
    IF n = 0 THEN {<<>>}
    ELSE LET shorter == Listings(n - 1)
         IN shorter \cup
            UNION {{Append(l, [name |-> nm, node |-> nd]) : nd \in NodesFor(nm)} :
                      l \in {s \in shorter : Len(s) = n - 1 /\ DistinctNames(s)},
                      nm \in Names}

\* the states the source directory path can be in
SourceStates ==
    {[kind |-> "missing", entries |-> <<>>], [kind |-> "file", entries |-> <<>>]}
    \cup {[kind |-> "dir", entries |-> l] :
            l \in {s \in Listings(MaxEntries) : DistinctNames(s)}}

\* the states the destination path can be in
DestStates ==
    {AbsentPath, FilePath}
    \cup {DirPath(es) :
            es \in UNION {{f \in [S -> UNION {PriorNodesFor(n) : n \in S}] :
                              \A n \in S : f[n] \in PriorNodesFor(n)} :
                            S \in {T \in SUBSET PriorNames : Cardinality(T) <= MaxPrior}}}

\* Path::exists
Exists(p) == p.kind # "missing" /\ p.kind # "absent"

\* fs::create_dir_all on the destination path
CreateDirAll(d) ==
    IF d.kind = "dir" THEN [ok |-> TRUE, dst |-> d]
    ELSE IF d.kind = "absent" THEN [ok |-> TRUE, dst |-> DirPath(EmptyDir)]
    ELSE [ok |-> FALSE, dst |-> d]

\* fs::read_dir on the source path
ReadDir(s) ==
    IF s.kind = "dir" THEN [ok |-> TRUE, entries |-> s.entries]
    ELSE [ok |-> FALSE, entries |-> <<>>]

\* the directory d with name nm bound to node nd
WithEntry(es, nm, nd) ==
    [n \in (DOMAIN es) \cup {nm} |-> IF n = nm THEN nd ELSE es[n]]

\* whether the file toName of directory d can be opened for writing: it
\* does not exist yet, or it is a regular file that the user may write
\* (a privileged user may write a read-only file)
CanWrite(d, toName, priv) ==
    \/ toName \notin DOMAIN d.entries
    \/ /\ d.entries[toName].kind = "file"
       /\ (priv \/ ~d.entries[toName].ro)

\* faulty variants of FsCopy: the destination opened in append mode; an existing
\* destination file kept as it is
FsCopy_append(e, d, toName, priv) ==
    IF e.node.kind # "file" \/ d.kind # "dir" THEN [ok |-> FALSE, dst |-> d]
    ELSE IF ~CanWrite(d, toName, priv)
         THEN [ok |-> FALSE, dst |-> d]
         ELSE [ok |-> TRUE,
               dst |-> DirPath(WithEntry(d.entries, toName,
                         FileNode((IF toName \in DOMAIN d.entries
                                   THEN d.entries[toName].content ELSE <<>>)
                                  \o e.node.content, e.node.ro)))]

FsCopy_keep(e, d, toName, priv) ==
    IF e.node.kind # "file" \/ d.kind # "dir" THEN [ok |-> FALSE, dst |-> d]
    ELSE IF ~CanWrite(d, toName, priv)
         THEN [ok |-> FALSE, dst |-> d]
         ELSE [ok |-> TRUE,
               dst |-> IF toName \in DOMAIN d.entries THEN d
                       ELSE DirPath(WithEntry(d.entries, toName,
                                              FileNode(e.node.content, e.node.ro)))]

\* fs::copy of source entry e to the file toName of the destination
\* directory: fails when the source is not a regular file, the destination
\* directory is missing, or the destination is a directory or a file the
\* user may not write; else creates or truncates the destination, writes
\* the source's content and gives it the source's permission bits
FsCopy(e, d, toName, priv) ==
    IF e.node.kind # "file" \/ d.kind # "dir" THEN [ok |-> FALSE, dst |-> d]
    ELSE IF ~CanWrite(d, toName, priv)
         THEN [ok |-> FALSE, dst |-> d]
         ELSE [ok |-> TRUE,
               dst |-> DirPath(WithEntry(d.entries, toName,
                                         FileNode(e.node.content, e.node.ro)))]

\* lines 25-26: .build_server(true).build_client(true)
BuildServer == TRUE
BuildClient == TRUE

\* The code generator is an external tool; what follows is its contract as
\* the specification gives it (sections 4.2 and 6), not code of build.rs.
\* The outcomes of compile_protos(protos, includes) on destination d: with
\* the entry point missing from the include path or not a regular file it
\* can only fail; otherwise it can succeed or reject what it finds.
\* Generation is all-or-nothing: a failure writes no binding, a success
\* writes the configured ones to the build system's output directory.  The
\* destination directory is read, never written.
CompileProtos(d, server, client) ==
    LET f == FileName(EntryPoint)
        bindings == (IF server THEN {"server"} ELSE {}) \cup
                    (IF client THEN {"client"} ELSE {})
        success == [ok |-> TRUE, written |-> bindings, dst |-> d]
        failure == [ok |-> FALSE, written |-> {}, dst |-> d]
    IN IF /\ d.kind = "dir"
          /\ f.some
          /\ Join(IncludePath, f.val) = EntryPoint
          /\ f.val \in DOMAIN d.entries
          /\ d.entries[f.val].kind = "file"
       THEN {success, failure}
       ELSE {failure}

\* -------------------------------------------------------------- state
VARIABLES
    src,        \* the source directory path and its entries in read_dir order
    dst,        \* the destination path
    pc,         \* position in main
    idx,        \* entries of the read_dir iterator consumed by the for loop
    log,        \* the calls made in this run, in order, with their results
    emitted,    \* the declarations main has printed (line 18) in this run
    artifacts,  \* the bindings in the build system's output directory
    run,        \* the number of the current run of the script
    dst0,       \* the destination path when the current run began
    staged,     \* the destination path at the end of each run's staging
    privileged  \* whether the user running the script may write read-only files

vars == <<src, dst, pc, idx, log, emitted, artifacts, run, dst0, staged, privileged>>

Init ==
    /\ src \in SourceStates
    /\ dst \in DestStates
    /\ pc = "start"
    /\ idx = 0
    /\ log = <<>>
    /\ emitted = <<>>
    /\ artifacts = {}
    /\ run = 1
    /\ dst0 = dst
    /\ staged = <<>>
    /\ privileged \in BOOLEAN

Call(op, arg, ok) == [op |-> op, arg |-> arg, ok |-> ok]

\* a faulty variant of MkDestDir: the result of create_dir_all is dropped
MkDestDir_ignore ==
    /\ pc = "start"
    /\ LET r == CreateDirAll(dst)
       IN /\ log' = Append(log, Call("create_dir_all", DestDir, r.ok))
          /\ dst' = r.dst
          /\ pc' = "check"
          /\ staged' = staged
    /\ UNCHANGED <<src, idx, emitted, artifacts, run, dst0, privileged>>

\* line 8: fs::create_dir_all(dest_dir)?
MkDestDir ==
    /\ pc = "start"
    /\ LET r == CreateDirAll(dst)
       IN /\ log' = Append(log, Call("create_dir_all", DestDir, r.ok))
          /\ dst' = r.dst
          /\ pc' = IF r.ok THEN "check" ELSE "failed"
          /\ staged' = IF r.ok THEN staged ELSE Append(staged, r.dst)
    /\ UNCHANGED <<src, idx, emitted, artifacts, run, dst0, privileged>>

\* faulty variants of OpenSource: read_dir without the exists test; the error of
\* read_dir dropped
OpenSource_ignore ==
    /\ pc = "check"
    /\ IF ~Exists(src)
       THEN /\ pc' = "codegen"
            /\ staged' = Append(staged, dst)
            /\ log' = log
       ELSE LET r == ReadDir(src)
            IN /\ log' = Append(log, Call("read_dir", SourceDir, r.ok))
               /\ pc' = IF r.ok THEN "loop" ELSE "codegen"
               /\ staged' = IF r.ok THEN staged ELSE Append(staged, dst)
    /\ idx' = 0
    /\ UNCHANGED <<src, dst, emitted, artifacts, run, dst0, privileged>>

OpenSource_noexists ==
    /\ pc = "check"
    /\ LET r == ReadDir(src)
       IN /\ log' = Append(log, Call("read_dir", SourceDir, r.ok))
          /\ pc' = IF r.ok THEN "loop" ELSE "failed"
          /\ staged' = IF r.ok THEN staged ELSE Append(staged, dst)
    /\ idx' = 0
    /\ UNCHANGED <<src, dst, emitted, artifacts, run, dst0, privileged>>

\* lines 10-11: if source_dir.exists() { for entry in fs::read_dir(source_dir)?
OpenSource ==
    /\ pc = "check"
    /\ IF ~Exists(src)
       THEN /\ pc' = "codegen"
            /\ staged' = Append(staged, dst)
            /\ log' = log
       ELSE LET r == ReadDir(src)
            IN /\ log' = Append(log, Call("read_dir", SourceDir, r.ok))
               /\ pc' = IF r.ok THEN "loop" ELSE "failed"
               /\ staged' = IF r.ok THEN staged ELSE Append(staged, dst)
    /\ idx' = 0
    /\ UNCHANGED <<src, dst, emitted, artifacts, run, dst0, privileged>>

\* faulty variants of NextEntry: the declaration printed before the copy; a failed
\* copy skipped instead of propagated
NextEntry_printfirst ==
    /\ pc = "loop"
    /\ idx < Len(src.entries)
    /\ LET e == src.entries[idx + 1]
           path == Join(SourceDir, e.name)
       IN IF IsProto(path)
          THEN LET file_name == FileName(path).val
                   dest_path == Join(DestDir, file_name)
                   r == FsCopy(e, dst, file_name, privileged)
               IN /\ log' = Append(log, Call("copy", <<path, dest_path>>, r.ok))
                  /\ dst' = r.dst
                  /\ emitted' = Append(emitted, RerunIfChanged \o path)
                  /\ IF r.ok
                     THEN /\ idx' = idx + 1
                          /\ UNCHANGED <<pc, staged>>
                     ELSE /\ pc' = "failed"
                          /\ staged' = Append(staged, r.dst)
                          /\ idx' = idx
          ELSE /\ idx' = idx + 1
               /\ UNCHANGED <<dst, pc, log, emitted, staged>>
    /\ UNCHANGED <<src, artifacts, run, dst0, privileged>>

NextEntry_skipfailed ==
    /\ pc = "loop"
    /\ idx < Len(src.entries)
    /\ LET e == src.entries[idx + 1]
           path == Join(SourceDir, e.name)
       IN IF IsProto(path)
          THEN LET file_name == FileName(path).val
                   dest_path == Join(DestDir, file_name)
                   r == FsCopy(e, dst, file_name, privileged)
               IN /\ log' = Append(log, Call("copy", <<path, dest_path>>, r.ok))
                  /\ dst' = r.dst
                  /\ idx' = idx + 1
                  /\ emitted' = IF r.ok THEN Append(emitted, RerunIfChanged \o path)
                                ELSE emitted
                  /\ UNCHANGED <<pc, staged>>
          ELSE /\ idx' = idx + 1
               /\ UNCHANGED <<dst, pc, log, emitted, staged>>
    /\ UNCHANGED <<src, artifacts, run, dst0, privileged>>

\* lines 11-19: one iteration of the for loop
NextEntry ==
    /\ pc = "loop"
    /\ idx < Len(src.entries)
    /\ LET e == src.entries[idx + 1]
           path == Join(SourceDir, e.name)
       IN IF IsProto(path)
          THEN LET file_name == FileName(path).val
                   dest_path == Join(DestDir, file_name)
                   r == FsCopy(e, dst, file_name, privileged)
               IN /\ log' = Append(log, Call("copy", <<path, dest_path>>, r.ok))
                  /\ dst' = r.dst
                  /\ IF r.ok
                     THEN /\ emitted' = Append(emitted, RerunIfChanged \o path)
                          /\ idx' = idx + 1
                          /\ UNCHANGED <<pc, staged>>
                     ELSE /\ pc' = "failed"
                          /\ staged' = Append(staged, r.dst)
                          /\ UNCHANGED <<idx, emitted>>
          ELSE /\ idx' = idx + 1
               /\ UNCHANGED <<dst, pc, log, emitted, staged>>
    /\ UNCHANGED <<src, artifacts, run, dst0, privileged>>

\* line 11, 20: the read_dir iterator is exhausted
EndLoop ==
    /\ pc = "loop"
    /\ idx = Len(src.entries)
    /\ pc' = "codegen"
    /\ staged' = Append(staged, dst)
    /\ UNCHANGED <<src, dst, idx, log, emitted, artifacts, run, dst0, privileged>>

\* a faulty variant of Codegen: the generator's error is swallowed
Codegen_swallow ==
    /\ pc = "codegen"
    /\ \E r \in CompileProtos(dst, BuildServer, BuildClient) :
        /\ log' = Append(log, Call("compile_protos", <<EntryPoint, IncludePath>>, r.ok))
        /\ artifacts' = artifacts \cup r.written
        /\ dst' = r.dst
        /\ pc' = "done"
    /\ UNCHANGED <<src, idx, emitted, run, dst0, staged, privileged>>

\* lines 24-31: configure().build_server(true).build_client(true)
\*              .compile_protos(&["proto/hello.proto"], &["proto"])?; Ok(())
\* main calls the generator, takes over what it did, and returns its error
\* or Ok(()); main itself prints nothing here
Codegen ==
    /\ pc = "codegen"
    /\ \E r \in CompileProtos(dst, BuildServer, BuildClient) :
        /\ log' = Append(log, Call("compile_protos", <<EntryPoint, IncludePath>>, r.ok))
        /\ artifacts' = artifacts \cup r.written
        /\ dst' = r.dst
        /\ pc' = IF r.ok THEN "done" ELSE "failed"
    /\ UNCHANGED <<src, idx, emitted, run, dst0, staged, privileged>>

\* the build system runs the script again, the source files unchanged
Rerun ==
    /\ pc \in {"done", "failed"}
    /\ run < MaxRuns
    /\ run' = run + 1
    /\ pc' = "start"
    /\ idx' = 0
    /\ log' = <<>>
    /\ emitted' = <<>>
    /\ dst0' = dst
    /\ UNCHANGED <<src, dst, artifacts, staged, privileged>>

Next ==
    \/ MkDestDir
    \/ OpenSource
    \/ NextEntry
    \/ EndLoop
    \/ Codegen
    \/ Rerun

Spec == Init /\ [][Next]_vars

\* ------------------------------------------------- what the claims speak of
\* the names of Names whose extension is exactly "proto"
MatchingNames == {HelloProto, ABProto}

\* the entries of the source directory, none when it is not a directory
SrcEntries == IF src.kind = "dir" THEN src.entries ELSE <<>>

\* the declaration the build system expects for the source file named nm
Line(nm) == RerunIfChanged \o SourceDir \o <<"/">> \o nm

IsMatchingEntry(e) == e.name \in MatchingNames
IsCopy(c) == c.op = "copy"
IsOkCopy(c) == c.op = "copy" /\ c.ok

\* the matching entries among the first k source entries, in read_dir order
MatchingUpTo(k) == SelectSeq(SubSeq(SrcEntries, 1, k), IsMatchingEntry)
LinesOf(es) == [i \in 1..Len(es) |-> Line(es[i].name)]
CopyArgsOf(es) ==
    [i \in 1..Len(es) |->
        <<SourceDir \o <<"/">> \o es[i].name, DestDir \o <<"/">> \o es[i].name>>]
ArgsOf(cs) == [i \in 1..Len(cs) |-> cs[i].arg]

\* the entries of a path that is a directory, none otherwise
EntriesOf(p) == IF p.kind = "dir" THEN p.entries ELSE EmptyDir

LastCall == log[Len(log)]
CodegenInvoked == \E i \in 1..Len(log) : log[i].op = "compile_protos"
StagingEnded == Len(staged) = run
StagingFailed == \E i \in 1..Len(log) : log[i].op # "compile_protos" /\ ~log[i].ok
StagingSucceeded == StagingEnded /\ ~StagingFailed
CopyFailed == \E i \in 1..Len(log) : log[i].op = "copy" /\ ~log[i].ok
HasEntryPoint ==
    /\ dst.kind = "dir"
    /\ HelloProto \in DOMAIN dst.entries
    /\ dst.entries[HelloProto].kind = "file"

\* ------------------------------------------------------------------ C1
\* C1: whenever staging has returned successfully, the destination is a
\* directory and holds, for every source entry whose extension is "proto", a
\* regular file of the same name with the content of that source file.
C1_StagedCopies ==
    StagingSucceeded =>
        /\ dst.kind = "dir"
        /\ \A i \in 1..Len(SrcEntries) :
              SrcEntries[i].name \in MatchingNames =>
                 /\ SrcEntries[i].name \in DOMAIN dst.entries
                 /\ dst.entries[SrcEntries[i].name].kind = "file"
                 /\ dst.entries[SrcEntries[i].name].content = SrcEntries[i].node.content

\* staging succeeded and overwrote a destination file of different content
C1_Witness ==
    /\ StagingSucceeded
    /\ run = 1
    /\ \E i \in 1..Len(SrcEntries) :
          /\ SrcEntries[i].name = HelloProto
          /\ HelloProto \in DOMAIN EntriesOf(dst0)
          /\ dst0.entries[HelloProto].kind = "file"
          /\ dst0.entries[HelloProto].content # SrcEntries[i].node.content

\* ------------------------------------------------------------------ C2
\* C2 as stated: after successful staging the files of the destination are
\* exactly the source entries with the "proto" extension, each with its
\* source's content.
C2_Original ==
    (StagingSucceeded /\ src.kind = "dir") =>
        /\ {n \in DOMAIN EntriesOf(dst) : dst.entries[n].kind = "file"} =
              {SrcEntries[i].name : i \in 1..Len(SrcEntries)} \cap MatchingNames
        /\ \A i \in 1..Len(SrcEntries) :
              SrcEntries[i].name \in MatchingNames =>
                 dst.entries[SrcEntries[i].name] = FileNode(SrcEntries[i].node.content, SrcEntries[i].node.ro)

\* C2 amended: after successful staging the destination holds exactly the
\* entries it held when the run began together with the source entries with
\* the "proto" extension; each of the latter has its source's content, every
\* other entry is as it was, and a copy was made of the matching source
\* entries only.
C2_Amended ==
    StagingSucceeded =>
        LET matching == {SrcEntries[i].name : i \in 1..Len(SrcEntries)} \cap MatchingNames
        IN /\ DOMAIN EntriesOf(dst) = (DOMAIN EntriesOf(dst0)) \cup matching
           /\ \A i \in 1..Len(SrcEntries) :
                 SrcEntries[i].name \in MatchingNames =>
                    dst.entries[SrcEntries[i].name] = FileNode(SrcEntries[i].node.content, SrcEntries[i].node.ro)
           /\ \A n \in (DOMAIN EntriesOf(dst)) \ matching : dst.entries[n] = dst0.entries[n]
           /\ ArgsOf(SelectSeq(log, IsCopy)) = CopyArgsOf(MatchingUpTo(Len(SrcEntries)))

\* staging succeeded on a source with a matching file, a file without
\* extension and another extension, into a destination with a prior file
C2_Witness ==
    /\ StagingSucceeded
    /\ run = 1
    /\ NotesTxt \in DOMAIN EntriesOf(dst0)
    /\ \E i, j \in 1..Len(SrcEntries) :
          /\ SrcEntries[i].name = DotProto /\ SrcEntries[i].node.kind = "file"
          /\ SrcEntries[j].name \in MatchingNames

\* ------------------------------------------------------------------ C3
\* C3: the generator is invoked only as the last call of a run, after
\* create_dir_all and (when the source exists) read_dir and every copy have
\* succeeded and the whole listing has been consumed; a failed call is the
\* last call of its run and leaves the pipeline failed; nothing but a new
\* run leaves the failed state.
C3_State ==
    /\ \A i \in 1..Len(log) :
          /\ log[i].op = "compile_protos" =>
                /\ i = Len(log)
                /\ i > 1
                /\ log[1].op = "create_dir_all"
                /\ \A j \in 1..(i - 1) : log[j].ok
                /\ dst.kind = "dir"
                /\ StagingEnded
                /\ Exists(src) =>
                      /\ src.kind = "dir"
                      /\ log[2].op = "read_dir"
                      /\ idx = Len(src.entries)
          /\ ~log[i].ok => i = Len(log) /\ pc = "failed"
    /\ pc \in {"done"} => CodegenInvoked /\ LastCall.ok
    /\ StagingFailed => pc = "failed" /\ ~CodegenInvoked

C3_Step ==
    pc = "failed" =>
        \/ UNCHANGED vars
        \/ pc' = "start" /\ run' = run + 1 /\ log' = <<>>

C3_Order == []C3_State /\ [][C3_Step]_vars

\* a run whose staging failed at read_dir
C3_Witness ==
    /\ pc = "failed"
    /\ Len(log) = 2
    /\ LastCall.op = "read_dir"
    /\ ~LastCall.ok

\* ------------------------------------------------------------------ C4
\* C4: with the source directory missing no read_dir and no copy is made;
\* staging fails only if the destination cannot be created, and otherwise
\* ends successfully with the destination a directory holding what it held
\* when the run began (nothing, if it was absent).
C4_MissingSource ==
    src.kind = "missing" =>
        /\ \A i \in 1..Len(log) : log[i].op \notin {"read_dir", "copy"}
        /\ StagingFailed => dst0.kind = "file"
        /\ (StagingEnded /\ dst0.kind # "file") =>
              /\ StagingSucceeded
              /\ dst.kind = "dir"
              /\ dst.entries = EntriesOf(dst0)
        /\ (pc \notin {"start", "check"} /\ dst0.kind # "file") => StagingEnded

\* staging ended with the source missing and the destination newly created
C4_Witness ==
    /\ src.kind = "missing"
    /\ dst0.kind = "absent"
    /\ pc = "codegen"
    /\ dst = DirPath(EmptyDir)

\* ------------------------------------------------------------------ C5
\* C5: when create_dir_all fails, it is the only call of the run: the
\* pipeline is failed, the source is not enumerated, nothing is copied or
\* written, nothing is declared and the generator is not invoked.
C5_NoDestDir ==
    (dst0.kind = "file" /\ pc # "start") =>
        /\ pc = "failed"
        /\ log = <<Call("create_dir_all", DestDir, FALSE)>>
        /\ emitted = <<>>
        /\ dst = dst0
        /\ idx = 0

\* the destination is a regular file and the source has a matching file
C5_Witness ==
    /\ dst0.kind = "file"
    /\ pc = "failed"
    /\ \E i \in 1..Len(SrcEntries) :
          SrcEntries[i].name \in MatchingNames /\ SrcEntries[i].node.kind = "file"

\* ------------------------------------------------------------------ C6
\* C6: the destination at the end of every later run's staging equals the
\* destination at the end of the first run's staging.
C6_Idempotent ==
    \A i \in 1..Len(staged) : staged[i] = staged[1]

\* a second run by an unprivileged user that failed to overwrite the
\* read-only file the first run had copied
C6_Witness ==
    /\ run = 2
    /\ Len(staged) = 2
    /\ ~privileged
    /\ CopyFailed
    /\ staged[1].kind = "dir"
    /\ HelloProto \in DOMAIN staged[1].entries
    /\ staged[1].entries[HelloProto].kind = "file"
    /\ staged[1].entries[HelloProto].content \in Contents
    /\ staged[1].entries[HelloProto].ro

\* ------------------------------------------------------------------ C7
\* C7: once staging has succeeded with no regular file hello.proto in the
\* destination, the generator is about to be invoked or has been invoked
\* and has failed, the pipeline is failed and no artifact exists; the run
\* never ends in done.
C7_MissingEntryPoint ==
    (StagingSucceeded /\ ~HasEntryPoint) =>
        \/ pc = "codegen" /\ ENABLED Codegen /\ artifacts = {}
        \/ /\ pc = "failed"
           /\ LastCall = Call("compile_protos", <<EntryPoint, IncludePath>>, FALSE)
           /\ artifacts = {}

\* the source missing, nothing staged, the generator invoked and failed
C7_Witness ==
    /\ src.kind = "missing"
    /\ dst = DirPath(EmptyDir)
    /\ pc = "failed"
    /\ CodegenInvoked

\* ------------------------------------------------------------------ C8
\* C8 as stated: every source entry identified as matching, the one whose
\* copy failed included, has exactly one declaration among the lines
\* printed, and the lines are in read_dir order.
C8_Original ==
    LET identified == IF CopyFailed THEN idx + 1 ELSE idx
    IN emitted = LinesOf(MatchingUpTo(identified))

\* C8 amended: the lines printed are exactly the declarations of the
\* matching source entries whose copy has succeeded, one each, in read_dir
\* order; a matching entry whose copy failed has no declaration.
C8_Amended ==
    /\ emitted = LinesOf(MatchingUpTo(idx))
    /\ ArgsOf(SelectSeq(log, IsOkCopy)) = CopyArgsOf(MatchingUpTo(idx))
    /\ CopyFailed =>
          /\ idx < Len(SrcEntries)
          /\ SrcEntries[idx + 1].name \in MatchingNames
          /\ \A i \in 1..Len(emitted) : emitted[i] # Line(SrcEntries[idx + 1].name)

\* a copy failed after an earlier matching entry was copied and declared
C8_Witness ==
    /\ CopyFailed
    /\ Len(emitted) >= 1

\* ------------------------------------------------------------------ C9
\* C9: no source entry that is a directory has a copy attempted or a line
\* printed for it, and staging does not fail at it.
C9_DirectoriesSkipped ==
    \A i \in 1..Len(SrcEntries) :
        SrcEntries[i].node.kind = "dir" =>
            /\ \A j \in 1..Len(log) :
                  log[j].op = "copy" => log[j].arg[1] # SourceDir \o <<"/">> \o SrcEntries[i].name
            /\ \A j \in 1..Len(emitted) : emitted[j] # Line(SrcEntries[i].name)
            /\ ~(pc = "failed" /\ StagingFailed /\ idx = i - 1 /\ LastCall.op = "copy")

\* ----------------------------------------------------------------- C10
\* C10: a failed copy is the last call of its run and leaves the pipeline
\* failed: the copies attempted are those of the matching entries up to the
\* failing one, the declarations those of the entries before it, the
\* generator is not invoked, and every file copied earlier in the run is in
\* the destination with its source's content.
C10_CopyFailure ==
    CopyFailed =>
        /\ pc = "failed"
        /\ ~LastCall.ok /\ LastCall.op = "copy"
        /\ idx < Len(SrcEntries)
        /\ ArgsOf(SelectSeq(log, IsCopy)) = CopyArgsOf(MatchingUpTo(idx + 1))
        /\ emitted = LinesOf(MatchingUpTo(idx))
        /\ ~CodegenInvoked
        /\ \A i \in 1..idx :
              SrcEntries[i].name \in MatchingNames =>
                 /\ SrcEntries[i].name \in DOMAIN EntriesOf(dst)
                 /\ dst.entries[SrcEntries[i].name] = FileNode(SrcEntries[i].node.content, SrcEntries[i].node.ro)
        /\ DOMAIN EntriesOf(dst) =
              (DOMAIN EntriesOf(dst0))
              \cup ({SrcEntries[i].name : i \in 1..idx} \cap MatchingNames)

\* the second of three entries failed to copy after the first was copied
C10_Witness ==
    /\ CopyFailed
    /\ Len(SrcEntries) = 3
    /\ idx = 1
    /\ SrcEntries[1].name \in MatchingNames
    /\ SrcEntries[2].name \in MatchingNames
    /\ SrcEntries[3].node.kind = "file"
    /\ run = 1

====
